---- MODULE Spec2Model ----
(***************************************************************************)
(* Sliding-window event counter (counter.go): a Counter owns two windows,  *)
(* curr and prev, rotates them as time passes (advance) and estimates the  *)
(* number of events in the trailing window (Count).                        *)
(*                                                                         *)
(* Instants and durations are integers: a number of clock ticks since the  *)
(* origin that time.Time.Truncate aligns to.                               *)
(***************************************************************************)
EXTENDS Integers, Sequences, FiniteSets, TLC

(***************************************************************************)
(* Bounds of the model.                                                    *)
(***************************************************************************)
\* The window size handed to NewCounter, in ticks.
Size == 22
\* Calls use instants in the buckets 0..MaxBucket.
MaxBucket == 3
\* At most MaxAdds calls of AddN and Increment are made (Count is not
\* limited).
MaxAdds == 3
\* The result of a Count is remembered over at most MaxBetween later AddN.
MaxBetween == 2

\* The concurrent callers of SpecConc, and the calls they make in all.
NumThreads == 2
MaxCalls == 3

\* Offsets inside a bucket at which calls are made.
Offsets == {0, 7, Size - 1}
\* The instants handed to AddN and Count.
Nows == {b * Size + o : b \in 0..MaxBucket, o \in Offsets}
\* The amounts handed to AddN: one event, or as many as the size has ticks.
Amounts == {1, Size}
\* The instants handed to the calls of SpecConc.
ConcNows == {7, Size + 7}
\* The sizes handed to NewCounter in SpecAnySize.
Sizes == {-Size, 0, Size}
\* The sync intervals handed to NewCounter in SpecSync.
SyncIntervals == {-1, 0, 1}
\* The most events a window can come to hold.
MaxCount == MaxAdds * Size

(***************************************************************************)
(* float64 arithmetic, as far as Count uses it (counter.go:98-99).         *)
(* float64(x) is exact for the integers of the model (|x| < 2^53), so the  *)
(* quotient of two converted integers is the quotient of the integers      *)
(* rounded to the nearest float64 (ties to even), and likewise the product *)
(* of a float64 and a converted integer.                                   *)
(*                                                                         *)
(* A positive float64 is [m, exp]: m is its 53-bit significand as five     *)
(* digits in base 2^13, leading digit first (the leading digit is the      *)
(* leading bit, 1), and exp is the binary exponent of the leading bit:     *)
(* the value is (m[1]*2^52 + m[2]*2^39 + m[3]*2^26 + m[4]*2^13 + m[5])     *)
(* * 2^(exp - 52).                                                         *)
(***************************************************************************)
LimbBits == 13
Limbs == 5

RECURSIVE Pow2(_)
Pow2(n) == IF n = 0 THEN 1 ELSE 2 * Pow2(n - 1)

Base == Pow2(LimbBits)

Abs(x) == IF x < 0 THEN -x ELSE x

Sign(x) == IF x < 0 THEN -1 ELSE IF x > 0 THEN 1 ELSE 0

\* The number of binary digits of n >= 0.
RECURSIVE BitLen(_)
BitLen(n) == IF n = 0 THEN 0 ELSE 1 + BitLen(n \div 2)

\* m + 1, the carry running from the last digit up into the leading one.
RECURSIVE IncrAt(_, _)
IncrAt(m, i) ==
    IF i = 1 \/ m[i] + 1 < Base THEN [m EXCEPT ![i] = m[i] + 1]
    ELSE IncrAt([m EXCEPT ![i] = 0], i - 1)

\* Round to nearest, ties to even: m are the leading 53 bits (exponent
\* exp), cmp compares the discarded part with 1/2 unit in the last place
\* (-1 below, 0 equal, 1 above).
RoundNearestEven(m, exp, cmp) ==
    IF cmp > 0 \/ (cmp = 0 /\ m[Limbs] % 2 = 1)
    THEN LET up == IncrAt(m, Limbs)
         IN  IF up[1] = 2
             THEN [m |-> <<1, 0, 0, 0, 0>>, exp |-> exp + 1]
             ELSE [m |-> up, exp |-> exp]
    ELSE [m |-> m, exp |-> exp]

\* The largest e >= 0 with b * 2^e <= a, for a >= b > 0.
RECURSIVE ExpUp(_, _)
ExpUp(a, b) == IF 2 * b <= a THEN 1 + ExpUp(a, 2 * b) ELSE 0

\* The least k >= 0 with a * 2^k >= b, for a, b > 0.
RECURSIVE ExpDown(_, _)
ExpDown(a, b) == IF a >= b THEN 0 ELSE 1 + ExpDown(2 * a, b)

\* float64(a) / float64(b) for integers a > 0, b > 0: long division, one
\* base-2^13 digit at a time.
Float64Div(a, b) ==
    LET k   == ExpDown(a, b)
        e   == IF k > 0 THEN -k ELSE ExpUp(a, b)
        num == IF k > 0 THEN a * Pow2(k) ELSE a
        den == IF k > 0 THEN b ELSE b * Pow2(e)
        \* num / den is in [1, 2): the leading bit is 1
        r1  == num - den
        r2  == (r1 * Base) % den
        r3  == (r2 * Base) % den
        r4  == (r3 * Base) % den
        r5  == (r4 * Base) % den
        m   == <<1, (r1 * Base) \div den, (r2 * Base) \div den,
                    (r3 * Base) \div den, (r4 * Base) \div den>>
    IN  RoundNearestEven(m, e, Sign(2 * r5 - den))

\* f * float64(c) for a positive float64 f and an integer c >= 1
\* (c < 2^13): the exact product digit by digit, then rounded to 53 bits.
Float64Mul(f, c) ==
    LET v5 == f.m[5] * c
        v4 == f.m[4] * c + v5 \div Base
        v3 == f.m[3] * c + v4 \div Base
        v2 == f.m[2] * c + v3 \div Base
        v1 == f.m[1] * c + v2 \div Base
        p  == <<v1, v2 % Base, v3 % Base, v4 % Base, v5 % Base>>
        \* the product has s bits more than 53
        s    == BitLen(v1) - 1
        low  == Pow2(s)
        high == Pow2(LimbBits - s)
        kept == [i \in 1..Limbs |->
                    IF i = 1 THEN p[1] \div low
                    ELSE (p[i - 1] % low) * high + p[i] \div low]
        lost == p[Limbs] % low
    IN  IF s = 0 THEN [m |-> p, exp |-> f.exp]
        ELSE RoundNearestEven(kept, f.exp + s, Sign(2 * lost - low))

\* int64(f) for a positive float64 f below 2^27: the fraction is discarded.
Float64ToInt(f) ==
    LET sh   == (LimbBits * (Limbs - 1)) - f.exp
        d    == sh \div LimbBits
        t    == sh % LimbBits
        top  == IF d = 2 THEN (f.m[1] * Base + f.m[2]) * Base + f.m[3]
                ELSE IF d = 3 THEN f.m[1] * Base + f.m[2]
                ELSE f.m[1]
    IN  IF f.exp < 0 THEN 0 ELSE top \div Pow2(t)

\* int64(float64(num) / float64(den) * float64(c)), den # 0: the sign is
\* carried apart, rounding is symmetric and the conversion truncates
\* toward zero.
Float64Weighted(num, den, c) ==
    IF num = 0 \/ c = 0 THEN 0
    ELSE Sign(num) * Sign(den) * Sign(c)
         * Float64ToInt(Float64Mul(Float64Div(Abs(num), Abs(den)), Abs(c)))

\* Float64Weighted for the arguments Count has in this model, worked out
\* once: size - elapsed is in 1..(MaxBucket + 1) * Size.
WeightedTable ==
    [num \in 1..((MaxBucket + 1) * Size) |->
        [c \in 0..MaxCount |-> Float64Weighted(num, Size, c)]]

WeightedCount(num, den, c) ==
    IF den = Size /\ num \in DOMAIN WeightedTable /\ c \in 0..MaxCount
    THEN WeightedTable[num][c]
    ELSE Float64Weighted(num, den, c)

(***************************************************************************)
(* time.Time and time.Duration.                                            *)
(***************************************************************************)
\* t.Truncate(d): t rounded down to a multiple of d; t itself when d <= 0.
Truncate(t, d) == IF d <= 0 THEN t ELSE t - (t % d)

\* Go's integer division, which truncates toward zero (b # 0).
GoDiv(a, b) == Sign(a) * Sign(b) * (Abs(a) \div Abs(b))

(***************************************************************************)
(* The window backend (the Window contract and LocalWindow): a window is   *)
(* [start, count].  NewLocalWindow gives the zero window; Sync of a local  *)
(* window does nothing.                                                    *)
(***************************************************************************)
NewLocalWindow == [start |-> 0, count |-> 0]

Reset(w, s, c) == [start |-> s, count |-> c]

AddCount(w, n) == [w EXCEPT !.count = w.count + n]

LocalSync(w, now) == w

(***************************************************************************)
(* The state: the Counter's fields, and a record of the calls made.        *)
(***************************************************************************)
VARIABLES
    size,    \* Counter.size
    curr,    \* Counter.curr
    prev,    \* Counter.prev
    adds,    \* the number of AddN and Increment calls made
    last,    \* the latest completed call, see Call
    ret,     \* what the latest Count returned, remembered while every call
             \* since then was an AddN with n >= 0 and a now in the bucket
             \* of that Count (at most MaxBetween of them); else NoRet
    retNow,  \* the now of that Count
    between, \* the number of AddN since that Count
    fresh,   \* every call so far was an AddN, all in one bucket
    sum      \* the sum of what those AddN added

\* The concurrent callers (SpecConc): each runs one call at a time, a step
\* at a time.
VARIABLES
    mu,      \* Counter.mu: the thread that holds the lock, NoThread if none
    pc,      \* pc[t]: where thread t is in its call, "idle" between calls
    arg,     \* arg[t]: the call of thread t, see ThreadCallAddN, ThreadCallCount
    tmp,     \* tmp[t]: the count AddCount has read and not yet written back
    res,     \* res[t]: what the Count of thread t computed
    conc     \* a record of the calls of all threads, see InitThreads

\* The background loop (Counter.Sync) and the life of the counter.
VARIABLES
    syncInterval, \* Counter.syncInterval
    syncStopCh,   \* Counter.syncStopCh: "nil" or "closed"
    loop,         \* where the goroutine of Counter.Sync is: "none" when
                  \* it was not started, "stopped" when it has returned
    life,         \* "live"; "discarded" once the caller has dropped the
                  \* counter; "collected" once the runtime has freed it;
                  \* "panic" when its finalizer has panicked
    syncs,        \* the Sync calls made by callers step by step and by
                  \* the loop, see NoSyncs
    obs           \* obs[t]: what the AddN of thread t has seen, see NoObs

counterVars == <<size, curr, prev>>
loopVars == <<syncInterval, syncStopCh, loop, life, syncs, obs>>
callVars == <<adds, last, ret, retNow, between, fresh, sum>>
threadVars == <<mu, pc, arg, tmp, res, conc>>
vars == <<size, curr, prev, adds, last, ret, retNow, between, fresh, sum,
          mu, pc, arg, tmp, res, conc,
          syncInterval, syncStopCh, loop, life, syncs, obs>>

Threads == 1..NumThreads
NoThread == 0
\* The goroutine of Counter.Sync as a holder of mu.
LoopThread == NumThreads + 1

NoRet == -1
NoCall ==
    [op |-> "none", now |-> 0, n |-> 0, diffSize |-> 0, again |-> FALSE,
     fresh |-> FALSE, held |-> FALSE, between |-> NoRet]

(***************************************************************************)
(* advance (counter.go:105-128): the windows after advance(now), and the   *)
(* diffSize it computed.                                                   *)
(***************************************************************************)
\* advance losing the snapshot: the new previous window never inherits.
advance_NoSnapshot(c, p, sz, now) ==
    LET newCurrStart == Truncate(now, sz)
        diffSize     == GoDiv(newCurrStart - c.start, sz)
    IN  IF diffSize >= 1
        THEN [curr     |-> Reset(c, newCurrStart, 0),
              prev     |-> Reset(p, newCurrStart - sz, 0),
              diffSize |-> diffSize]
        ELSE [curr |-> c, prev |-> p, diffSize |-> diffSize]

\* advance inheriting the count however far behind the window is.
advance_AlwaysSnapshot(c, p, sz, now) ==
    LET newCurrStart == Truncate(now, sz)
        diffSize     == GoDiv(newCurrStart - c.start, sz)
    IN  IF diffSize >= 1
        THEN [curr     |-> Reset(c, newCurrStart, 0),
              prev     |-> Reset(p, newCurrStart - sz, c.count),
              diffSize |-> diffSize]
        ELSE [curr |-> c, prev |-> p, diffSize |-> diffSize]

\* advance resetting the previous window to the new current start.
advance_PrevAtCurrStart(c, p, sz, now) ==
    LET newCurrStart == Truncate(now, sz)
        diffSize     == GoDiv(newCurrStart - c.start, sz)
        newPrevCount == IF diffSize = 1 THEN c.count ELSE 0
    IN  IF diffSize >= 1
        THEN [curr     |-> Reset(c, newCurrStart, 0),
              prev     |-> Reset(p, newCurrStart, newPrevCount),
              diffSize |-> diffSize]
        ELSE [curr |-> c, prev |-> p, diffSize |-> diffSize]

\* advance rotating only when more than one size behind.
advance_LateRotation(c, p, sz, now) ==
    LET newCurrStart == Truncate(now, sz)
        diffSize     == GoDiv(newCurrStart - c.start, sz)
    IN  IF diffSize > 1
        THEN [curr     |-> Reset(c, newCurrStart, 0),
              prev     |-> Reset(p, newCurrStart - sz, 0),
              diffSize |-> diffSize]
        ELSE [curr |-> c, prev |-> p, diffSize |-> diffSize]

\* advance rotating whenever the expected window differs, also backward.
advance_AnyDifference(c, p, sz, now) ==
    LET newCurrStart == Truncate(now, sz)
        diffSize     == GoDiv(newCurrStart - c.start, sz)
        newPrevCount == IF diffSize = 1 THEN c.count ELSE 0
    IN  IF diffSize # 0
        THEN [curr     |-> Reset(c, newCurrStart, 0),
              prev     |-> Reset(p, newCurrStart - sz, newPrevCount),
              diffSize |-> diffSize]
        ELSE [curr |-> c, prev |-> p, diffSize |-> diffSize]

\* advance resetting the current window's count but not its start.
advance_CurrStartKept(c, p, sz, now) ==
    LET newCurrStart == Truncate(now, sz)
        diffSize     == GoDiv(newCurrStart - c.start, sz)
        newPrevCount == IF diffSize = 1 THEN c.count ELSE 0
    IN  IF diffSize >= 1
        THEN [curr     |-> Reset(c, c.start, 0),
              prev     |-> Reset(p, newCurrStart - sz, newPrevCount),
              diffSize |-> diffSize]
        ELSE [curr |-> c, prev |-> p, diffSize |-> diffSize]

advance(c, p, sz, now) ==
    LET newCurrStart == Truncate(now, sz)
        diffSize     == GoDiv(newCurrStart - c.start, sz)
        newPrevCount == IF diffSize = 1 THEN c.count ELSE 0
    IN  IF diffSize >= 1
        THEN [curr     |-> Reset(c, newCurrStart, 0),
              prev     |-> Reset(p, newCurrStart - sz, newPrevCount),
              diffSize |-> diffSize]
        ELSE [curr |-> c, prev |-> p, diffSize |-> diffSize]

\* AddN adding before it advances: a rotation drops what was just added.
AddNEffect_AddFirst(c, p, sz, now, n) ==
    advance(LocalSync(AddCount(c, n), now), p, sz, now)

\* What AddN does to the windows (counter.go:83-88): advance, AddCount and
\* then the deferred Sync.
AddNEffect(c, p, sz, now, n) ==
    LET a == advance(c, p, sz, now)
    IN  [a EXCEPT !.curr = LocalSync(AddCount(a.curr, n), now)]

\* Count taking the weight from elapsed - size instead of size - elapsed.
Estimate_ElapsedMinusSize(c, p, sz, now) ==
    LET elapsed == now - c.start
    IN  WeightedCount(elapsed - sz, sz, p.count) + c.count

\* Count weighting the current window instead of the previous one.
Estimate_WindowsSwapped(c, p, sz, now) ==
    LET elapsed == now - c.start
    IN  WeightedCount(sz - elapsed, sz, c.count) + p.count

\* The value Count computes from the windows after advance
\* (counter.go:97-99).
Estimate(c, p, sz, now) ==
    LET elapsed == now - c.start
    IN  WeightedCount(sz - elapsed, sz, p.count) + c.count

\* Size working the size out from the two windows' starts.
CounterSize_FromWindows == curr.start - prev.start

\* Counter.Size (counter.go:69-71).
CounterSize == size

(***************************************************************************)
(* NewCounter (counter.go:23-50) with the local window as newWindow.       *)
(***************************************************************************)
NoArg == [op |-> "none", now |-> 0, n |-> 0, after |-> NoRet]

\* No thread has called yet.  conc: calls, the number of calls made;
\* issued and returned, the number of AddN calls made and returned; now,
\* the now of the first call; same, every call so far had that now;
\* overlapped, an AddN was called while another had not returned.
InitThreads ==
    /\ mu = NoThread
    /\ pc = [t \in Threads |-> "idle"]
    /\ arg = [t \in Threads |-> NoArg]
    /\ tmp = [t \in Threads |-> 0]
    /\ res = [t \in Threads |-> NoRet]
    /\ conc = [calls |-> 0, issued |-> 0, returned |-> 0, now |-> 0,
               same |-> TRUE, overlapped |-> FALSE]

\* No Sync call yet.  curr and prev count the Sync calls the callers have
\* made on each window, byCount those among them made by a Count; tick, the
\* loop has made a Sync call; late, the latest tick of the loop had a now
\* in a bucket after curr's.
NoSyncs == [curr |-> 0, prev |-> 0, byCount |-> 0, tick |-> FALSE,
            late |-> FALSE]

\* What an AddN has seen so far: start, base and prev, the start and the
\* count of curr and the window prev as its advance left them; syncs, the
\* number of its Sync calls; seen, curr as handed to the last of them.
NoObs == [start |-> 0, base |-> 0, prev |-> NewLocalWindow, syncs |-> 0,
          seen |-> NewLocalWindow]

\* No call has been made.
InitCalls ==
    /\ adds = 0
    /\ last = NoCall
    /\ ret = NoRet
    /\ retNow = 0
    /\ between = 0
    /\ fresh = TRUE
    /\ sum = 0
    /\ life = "live"
    /\ syncs = NoSyncs
    /\ obs = [t \in Threads |-> NoObs]

\* NewCounter starting the loop for a syncInterval of 0 as well.
NewCounter_LoopAlways(sz, si) ==
    /\ InitThreads
    /\ InitCalls
    /\ size = sz
    /\ curr = NewLocalWindow
    /\ prev = NewLocalWindow
    /\ syncInterval = si
    /\ syncStopCh = "nil"
    /\ loop = IF si >= 0 THEN "select" ELSE "none"

\* NewCounter leaving an event in the current window.
NewCounter_UsedWindow(sz, si) ==
    /\ InitThreads
    /\ InitCalls
    /\ size = sz
    /\ curr = AddCount(NewLocalWindow, 1)
    /\ prev = NewLocalWindow
    /\ syncInterval = si
    /\ syncStopCh = "nil"
    /\ loop = IF si > 0 THEN "select" ELSE "none"

\* NewCounter(sz, NewLocalWindow, si) (counter.go:23-50): syncStopCh is
\* never made, so it is nil, and the loop is started when si > 0.
NewCounter(sz, si) ==
    /\ InitThreads
    /\ InitCalls
    /\ size = sz
    /\ curr = NewLocalWindow
    /\ prev = NewLocalWindow
    /\ syncInterval = si
    /\ syncStopCh = "nil"
    /\ loop = IF si > 0 THEN "select" ELSE "none"

Init == NewCounter(Size, 0)

\* The record of a call: what was called, the diffSize its advance
\* computed, and what held when it was made: again, the call before it was
\* the same Count; fresh; held, both windows held events; between, the
\* number of AddN since the remembered Count (NoRet when none is
\* remembered).
Call(op, now, n, d) ==
    [op |-> op, now |-> now, n |-> n, diffSize |-> d,
     again |-> op = "Count" /\ last.op = op /\ last.now = now,
     fresh |-> fresh,
     held |-> curr.count > 0 /\ prev.count > 0,
     between |-> IF op = "Count" /\ ret # NoRet THEN between ELSE NoRet]

\* A call on a counter of size 0: advance divides by zero (counter.go:109)
\* and the call panics before it has changed a window.
Panicked(op, now, n) ==
    /\ last' = [NoCall EXCEPT !.op = "panic", !.now = now, !.n = n]
    /\ UNCHANGED <<counterVars, adds, ret, retNow, between, fresh, sum>>

\* The record after AddN(now, n).
Added(now, n, d) ==
    LET q == /\ ret # NoRet
             /\ between < MaxBetween
             /\ n >= 0
             /\ Truncate(now, size) = Truncate(retNow, size)
        f == /\ fresh
             /\ last.op = "none" \/ Truncate(now, size) = Truncate(last.now, size)
    IN  /\ adds' = adds + 1
        /\ last' = Call("AddN", now, n, d)
        /\ ret' = IF q THEN ret ELSE NoRet
        /\ retNow' = IF q THEN retNow ELSE 0
        /\ between' = IF q THEN between + 1 ELSE 0
        /\ fresh' = f
        /\ sum' = IF f THEN sum + n ELSE 0

\* Counter.AddN (counter.go:79-89), a whole call under the lock.
AddN ==
    \E now \in Nows, n \in Amounts :
        LET e == AddNEffect(curr, prev, size, now, n)
        IN  /\ adds < MaxAdds
            /\ last.op # "panic"
            /\ IF size = 0 THEN Panicked("AddN", now, n)
               ELSE /\ curr' = e.curr
                    /\ prev' = e.prev
                    /\ Added(now, n, e.diffSize)
                    /\ UNCHANGED size
            /\ UNCHANGED <<threadVars, loopVars>>

\* Counter.Increment (counter.go:74-76): AddN(time.Now(), 1), now being
\* what the clock reads.
Increment ==
    \E now \in Nows :
        LET e == AddNEffect(curr, prev, size, now, 1)
        IN  /\ adds < MaxAdds
            /\ last.op # "panic"
            /\ IF size = 0 THEN Panicked("AddN", now, 1)
               ELSE /\ curr' = e.curr
                    /\ prev' = e.prev
                    /\ Added(now, 1, e.diffSize)
                    /\ UNCHANGED size
            /\ UNCHANGED <<threadVars, loopVars>>

\* Counter.Count (counter.go:91-102), a whole call under the lock.
Count ==
    \E now \in Nows :
        LET a == advance(curr, prev, size, now)
        IN  /\ last.op # "panic"
            /\ IF size = 0 THEN Panicked("Count", now, 0)
               ELSE /\ curr' = a.curr
                    /\ prev' = a.prev
                    /\ ret' = Estimate(a.curr, a.prev, size, now)
                    /\ retNow' = now
                    /\ between' = 0
                    /\ last' = Call("Count", now, 0, a.diffSize)
                    /\ fresh' = FALSE
                    /\ sum' = 0
                    /\ UNCHANGED <<size, adds>>
            /\ UNCHANGED <<threadVars, loopVars>>

Next == AddN \/ Increment \/ Count

Spec == Init /\ [][Next]_vars

\* The same calls on a counter made with any of Sizes.
InitAnySize == \E sz \in Sizes : NewCounter(sz, 0)

SpecAnySize == InitAnySize /\ [][Next]_vars

(***************************************************************************)
(* Concurrent callers.  AddN and Count as the steps a thread takes:        *)
(* mu.Lock(), advance, then for AddN AddCount (the read and the write of   *)
(* the count, a plain field LocalWindow does not guard) and the deferred   *)
(* Sync, for Count the estimate, and last the deferred mu.Unlock().        *)
(***************************************************************************)
\* The record of the calls after one more call with this now.
Called(now, isAdd) ==
    [calls      |-> conc.calls + 1,
     issued     |-> conc.issued + (IF isAdd THEN 1 ELSE 0),
     returned   |-> conc.returned,
     now        |-> IF conc.calls = 0 THEN now ELSE conc.now,
     same       |-> conc.same /\ (conc.calls = 0 \/ now = conc.now),
     overlapped |-> conc.overlapped
                    \/ (isAdd /\ conc.issued > conc.returned)]

\* Thread t calls AddN(now, 1).
ThreadCallAddN(t) ==
    \E now \in ConcNows :
        /\ pc[t] = "idle"
        /\ life = "live"
        /\ conc.calls < MaxCalls
        /\ arg' = [arg EXCEPT ![t] =
                      [op |-> "AddN", now |-> now, n |-> 1, after |-> NoRet]]
        /\ conc' = Called(now, TRUE)
        /\ pc' = [pc EXCEPT ![t] = "lock"]
        /\ obs' = [obs EXCEPT ![t] = NoObs]
        /\ UNCHANGED <<counterVars, callVars, mu, tmp, res>>
        /\ UNCHANGED <<syncInterval, syncStopCh, loop, life, syncs>>

\* Thread t calls Count(now); after is the number of AddN calls that have
\* returned, when all that were made have and all calls had this now, and
\* NoRet otherwise.
ThreadCallCount(t) ==
    \E now \in ConcNows :
        /\ pc[t] = "idle"
        /\ life = "live"
        /\ conc.calls < MaxCalls
        /\ arg' = [arg EXCEPT ![t] =
                      [op |-> "Count", now |-> now, n |-> 0,
                       after |-> IF /\ Called(now, FALSE).same
                                    /\ conc.issued = conc.returned
                                 THEN conc.returned ELSE NoRet]]
        /\ conc' = Called(now, FALSE)
        /\ pc' = [pc EXCEPT ![t] = "lock"]
        /\ res' = [res EXCEPT ![t] = NoRet]
        /\ UNCHANGED <<counterVars, callVars, loopVars, mu, tmp>>

\* counter.mu.Lock() without waiting for the lock to be free.
ThreadLock_NoWait(t) ==
    /\ pc[t] = "lock"
    /\ mu' = t
    /\ pc' = [pc EXCEPT ![t] = "advance"]
    /\ UNCHANGED <<counterVars, callVars, loopVars, arg, tmp, res, conc>>

\* counter.mu.Lock() (counter.go:80, 92).
ThreadLock(t) ==
    /\ pc[t] = "lock"
    /\ mu = NoThread
    /\ mu' = t
    /\ pc' = [pc EXCEPT ![t] = "advance"]
    /\ UNCHANGED <<counterVars, callVars, loopVars, arg, tmp, res, conc>>

\* AddN calling Sync right after advance as well, before it adds.
ThreadAdvance_SyncFirst(t) ==
    LET a == advance(curr, prev, size, arg[t].now)
    IN  /\ pc[t] = "advance"
        /\ curr' = LocalSync(a.curr, arg[t].now)
        /\ prev' = a.prev
        /\ pc' = [pc EXCEPT ![t] = IF arg[t].op = "AddN" THEN "load"
                                   ELSE "estimate"]
        /\ obs' = [obs EXCEPT ![t] =
                      IF arg[t].op = "AddN"
                      THEN [NoObs EXCEPT !.start = a.curr.start,
                                         !.base = a.curr.count,
                                         !.prev = a.prev,
                                         !.syncs = 1,
                                         !.seen = a.curr]
                      ELSE @]
        /\ syncs' = [syncs EXCEPT !.curr = IF arg[t].op = "AddN" THEN @ + 1
                                           ELSE @]
        /\ UNCHANGED <<size, callVars, mu, arg, tmp, res, conc>>
        /\ UNCHANGED <<syncInterval, syncStopCh, loop, life>>

\* counter.advance(now) (counter.go:83, 95).
ThreadAdvance(t) ==
    LET a == advance(curr, prev, size, arg[t].now)
    IN  /\ pc[t] = "advance"
        /\ curr' = a.curr
        /\ prev' = a.prev
        /\ pc' = [pc EXCEPT ![t] = IF arg[t].op = "AddN" THEN "load"
                                   ELSE "estimate"]
        /\ obs' = [obs EXCEPT ![t] =
                      IF arg[t].op = "AddN"
                      THEN [NoObs EXCEPT !.start = a.curr.start,
                                         !.base = a.curr.count,
                                         !.prev = a.prev]
                      ELSE @]
        /\ UNCHANGED <<size, callVars, mu, arg, tmp, res, conc>>
        /\ UNCHANGED <<syncInterval, syncStopCh, loop, life, syncs>>

\* counter.curr.AddCount(n) (counter.go:88): the count is read ...
ThreadAddCountRead(t) ==
    /\ pc[t] = "load"
    /\ tmp' = [tmp EXCEPT ![t] = curr.count]
    /\ pc' = [pc EXCEPT ![t] = "store"]
    /\ UNCHANGED <<counterVars, callVars, loopVars, mu, arg, res, conc>>

\* ... and written back with n added.
ThreadAddCountWrite(t) ==
    /\ pc[t] = "store"
    /\ curr' = [curr EXCEPT !.count = tmp[t] + arg[t].n]
    /\ pc' = [pc EXCEPT ![t] = "sync"]
    /\ UNCHANGED <<size, prev, callVars, loopVars, mu, arg, tmp, res, conc>>

\* The deferred counter.curr.Sync(now) (counter.go:86).
ThreadSync(t) ==
    /\ pc[t] = "sync"
    /\ curr' = LocalSync(curr, arg[t].now)
    /\ pc' = [pc EXCEPT ![t] = "unlock"]
    /\ syncs' = [syncs EXCEPT !.curr = @ + 1,
                              !.byCount = IF arg[t].op = "Count" THEN @ + 1
                                          ELSE @]
    /\ obs' = [obs EXCEPT ![t] = [@ EXCEPT !.syncs = @ + 1, !.seen = curr]]
    /\ UNCHANGED <<size, prev, callVars, mu, arg, tmp, res, conc>>
    /\ UNCHANGED <<syncInterval, syncStopCh, loop, life>>

\* The estimate of Count (counter.go:97-101).
ThreadEstimate(t) ==
    /\ pc[t] = "estimate"
    /\ res' = [res EXCEPT ![t] = Estimate(curr, prev, size, arg[t].now)]
    /\ pc' = [pc EXCEPT ![t] = "unlock"]
    /\ UNCHANGED <<counterVars, callVars, loopVars, mu, arg, tmp, conc>>

\* The deferred counter.mu.Unlock() (counter.go:81, 93), and the return.
ThreadUnlock(t) ==
    /\ pc[t] = "unlock"
    /\ mu' = NoThread
    /\ pc' = [pc EXCEPT ![t] = "idle"]
    /\ conc' = [conc EXCEPT !.returned =
                   @ + (IF arg[t].op = "AddN" THEN 1 ELSE 0)]
    /\ UNCHANGED <<counterVars, callVars, loopVars, arg, tmp, res>>

NextConc ==
    \E t \in Threads :
        \/ ThreadCallAddN(t)
        \/ ThreadCallCount(t)
        \/ ThreadLock(t)
        \/ ThreadAdvance(t)
        \/ ThreadAddCountRead(t)
        \/ ThreadAddCountWrite(t)
        \/ ThreadSync(t)
        \/ ThreadEstimate(t)
        \/ ThreadUnlock(t)

SpecConc == Init /\ [][NextConc]_vars

(***************************************************************************)
(* The background loop, Counter.Sync (counter.go:52-64), started by        *)
(* NewCounter when syncInterval > 0, and the end of the counter's life:    *)
(* the caller drops the counter, and the runtime frees it, running the     *)
(* finalizer NewCounter has set (counter.go:44-46), once no goroutine      *)
(* refers to it any more.                                                  *)
(***************************************************************************)
\* The select (counter.go:54-58): the timer fires; a receive from
\* syncStopCh is ready only once the channel is closed, never on a nil
\* channel.
LoopSelect ==
    /\ loop = "select"
    /\ \/ loop' = "lock"
       \/ syncStopCh = "closed" /\ loop' = "stopped"
    /\ UNCHANGED <<counterVars, callVars, threadVars>>
    /\ UNCHANGED <<syncInterval, syncStopCh, life, syncs, obs>>

\* counter.mu.Lock() of the loop without waiting for the lock to be free.
LoopLock_NoWait ==
    /\ loop = "lock"
    /\ mu' = LoopThread
    /\ loop' = "sync"
    /\ UNCHANGED <<counterVars, callVars, pc, arg, tmp, res, conc>>
    /\ UNCHANGED <<syncInterval, syncStopCh, life, syncs, obs>>

\* counter.mu.Lock() (counter.go:60).
LoopLock ==
    /\ loop = "lock"
    /\ mu = NoThread
    /\ mu' = LoopThread
    /\ loop' = "sync"
    /\ UNCHANGED <<counterVars, callVars, pc, arg, tmp, res, conc>>
    /\ UNCHANGED <<syncInterval, syncStopCh, life, syncs, obs>>

\* A tick that runs advance before it calls Sync.
LoopSync_Advances ==
    \E now \in ConcNows :
        LET a == advance(curr, prev, size, now)
        IN  /\ loop = "sync"
            /\ curr' = LocalSync(a.curr, now)
            /\ prev' = a.prev
            /\ syncs' = [syncs EXCEPT !.tick = TRUE,
                            !.late = Truncate(now, size) > curr.start]
            /\ loop' = "unlock"
            /\ UNCHANGED <<size, callVars, threadVars>>
            /\ UNCHANGED <<syncInterval, syncStopCh, life, obs>>

\* counter.curr.Sync(time.Now()) (counter.go:61), now being what the clock
\* reads.
LoopSync ==
    \E now \in ConcNows :
        /\ loop = "sync"
        /\ curr' = LocalSync(curr, now)
        /\ syncs' = [syncs EXCEPT !.tick = TRUE,
                        !.late = Truncate(now, size) > curr.start]
        /\ loop' = "unlock"
        /\ UNCHANGED <<size, prev, callVars, threadVars>>
        /\ UNCHANGED <<syncInterval, syncStopCh, life, obs>>

\* counter.mu.Unlock() (counter.go:62), and back to the select.
LoopUnlock ==
    /\ loop = "unlock"
    /\ mu' = NoThread
    /\ loop' = "select"
    /\ UNCHANGED <<counterVars, callVars, pc, arg, tmp, res, conc>>
    /\ UNCHANGED <<syncInterval, syncStopCh, life, syncs, obs>>

\* The caller drops the counter, having called the StopFunc NewCounter
\* returned (counter.go:49), which is the current window's and stops
\* nothing of a local window.
Discard ==
    /\ life = "live"
    /\ \A t \in Threads : pc[t] = "idle"
    /\ life' = "discarded"
    /\ UNCHANGED <<counterVars, callVars, threadVars>>
    /\ UNCHANGED <<syncInterval, syncStopCh, loop, syncs, obs>>

\* The runtime frees the dropped counter once no goroutine refers to it:
\* the goroutine of Counter.Sync does for as long as it runs
\* (counter.go:42).  The finalizer, set when syncInterval > 0, closes
\* syncStopCh, which panics when the channel is nil (counter.go:44-46).
Collect ==
    /\ life = "discarded"
    /\ loop \in {"none", "stopped"}
    /\ IF syncInterval > 0
       THEN IF syncStopCh = "nil"
            THEN life' = "panic" /\ UNCHANGED syncStopCh
            ELSE life' = "collected" /\ syncStopCh' = "closed"
       ELSE life' = "collected" /\ UNCHANGED syncStopCh
    /\ UNCHANGED <<counterVars, callVars, threadVars>>
    /\ UNCHANGED <<syncInterval, loop, syncs, obs>>

InitSync == \E si \in SyncIntervals : NewCounter(Size, si)

NextSync ==
    \/ NextConc
    \/ LoopSelect
    \/ LoopLock
    \/ LoopSync
    \/ LoopUnlock
    \/ Discard
    \/ Collect

SpecSync == InitSync /\ [][NextSync]_vars

\* The scheduler lets every goroutine that can take a step take one, the
\* timer fires, and the runtime frees what it can.
SpecSyncFair ==
    /\ SpecSync
    /\ \A t \in Threads :
           WF_vars(\/ ThreadLock(t) \/ ThreadAdvance(t)
                   \/ ThreadAddCountRead(t) \/ ThreadAddCountWrite(t)
                   \/ ThreadSync(t) \/ ThreadEstimate(t) \/ ThreadUnlock(t))
    /\ WF_vars(LoopSelect)
    /\ SF_vars(LoopLock)
    /\ WF_vars(LoopSync)
    /\ WF_vars(LoopUnlock)
    /\ WF_vars(Collect)

(***************************************************************************)
(* The claims.  A step of Spec is one call, the one last' records: in the  *)
(* action formulas below the unprimed windows are the windows before the   *)
(* call, the primed ones the windows after it.                             *)
(***************************************************************************)
\* The aligned bucket start of the now of the call a step makes.
NewStart == Truncate(last'.now, size)

\* What the call's AddCount leaves in a current window it has just reset.
AddedByCall == IF last'.op = "AddN" THEN last'.n ELSE 0

\* C1 (as claimed): after Count(now) the value returned is
\* floor((size - elapsed) * prev.Count() / size) + curr.Count(), with
\* elapsed = now - curr.Start() and the windows those after the advance.
C1_CountIsFloorOfWeighted ==
    last.op = "Count" =>
        ret = (((size - (last.now - curr.start)) * prev.count) \div size)
              + curr.count

\* C2: a call whose now lies in the bucket right after curr's rotates once:
\* prev becomes (newCurrStart - size, the count curr held) and curr becomes
\* (newCurrStart, 0), to which an AddN then adds its n.
C2_RotateOnceInherits ==
    [][ NewStart = curr.start + size =>
            /\ prev' = [start |-> NewStart - size, count |-> curr.count]
            /\ curr' = [start |-> NewStart, count |-> AddedByCall] ]_vars

\* A call has just rotated by one size and prev holds the inherited events.
C2_Witness ==
    /\ last.op \in {"AddN", "Count"}
    /\ last.diffSize = 1
    /\ Truncate(last.now, size) = curr.start
    /\ prev.count > 0
    /\ prev.start = curr.start - size

\* C3: a call whose now lies two or more buckets after curr's leaves prev at
\* (newCurrStart - size, 0) and curr at (newCurrStart, 0), an AddN adding
\* its n to that; a Count then returns 0.
C3_SkipClearsBoth ==
    [][ NewStart >= curr.start + 2 * size =>
            /\ prev' = [start |-> NewStart - size, count |-> 0]
            /\ curr' = [start |-> NewStart, count |-> AddedByCall]
            /\ last'.op = "Count" => ret' = 0 ]_vars

\* A Count has just skipped at least one bucket, both windows having held
\* events before it, and returned 0.
C3_Witness ==
    /\ last.op = "Count"
    /\ last.diffSize >= 2
    /\ last.held
    /\ ret = 0

\* C4 (SpecConc): when every call so far was an AddN(now, 1) or a
\* Count(now) with one and the same now, a Count(now) that was called after
\* all N calls of AddN had returned, and that no further AddN has followed,
\* returns N.
C4_NoLostUpdates ==
    \A t \in Threads :
        /\ pc[t] = "idle"
        /\ arg[t].op = "Count"
        /\ arg[t].after # NoRet
        /\ conc.same
        /\ conc.issued = arg[t].after
        => res[t] = arg[t].after

\* Such a Count has returned 2 after two AddN calls that overlapped.
C4_Witness ==
    \E t \in Threads :
        /\ pc[t] = "idle"
        /\ arg[t].op = "Count"
        /\ arg[t].after = 2
        /\ conc.same
        /\ conc.issued = 2
        /\ conc.overlapped
        /\ res[t] = 2

\* C5 (as claimed): in every state prev.Start() = curr.Start() - size.
C5_PrevOneSizeBehind == prev.start = curr.start - size

\* C5 (amended): prev.Start() = curr.Start() - size in every state in which
\* curr no longer has the start it was constructed with, that is from the
\* first rotation on; until then both windows have the constructed start.
C5_PrevOneSizeBehindOnceRotated ==
    IF curr.start = NewLocalWindow.start
    THEN prev.start = curr.start
    ELSE prev.start = curr.start - size

\* A rotation has happened.
C5_Witness ==
    /\ last.diffSize >= 1
    /\ curr.start = Truncate(last.now, size)
    /\ prev.start = curr.start - size

\* C6 (as claimed): after any call, curr.Start() is a multiple of size and
\* curr.Start() <= now < curr.Start() + size for the call's now.
C6_CurrHoldsNow ==
    last.op # "none" =>
        /\ curr.start % size = 0
        /\ curr.start <= last.now
        /\ last.now < curr.start + size

\* C6 (amended): after any call, curr.Start() is a multiple of size and
\* now < curr.Start() + size; curr.Start() <= now as well when the now was
\* not earlier than curr.Start() before the call, and a call with an
\* earlier now leaves curr.Start() as it was.
C6_CurrHoldsNowUnlessEarlier ==
    [][ /\ curr.start' % size = 0
        /\ last'.now < curr.start' + size
        /\ last'.now >= curr.start => curr.start' <= last'.now
        /\ last'.now < curr.start => curr.start' = curr.start ]_vars

\* A call has just rotated to the bucket of its now.
C6_Witness ==
    /\ last.op \in {"AddN", "Count"}
    /\ last.diffSize >= 1
    /\ curr.start >= size
    /\ curr.start <= last.now
    /\ last.now < curr.start + size

\* C7: curr.Start() never decreases, and a call whose now is earlier than
\* curr.Start(), or earlier than the now of a previous call, rotates
\* nothing.  Every call leaves curr.Start() at or after the bucket of its
\* now and curr.Start() never decreases, so a now earlier than that of any
\* previous call has its bucket at or before curr.Start(): the no-rotation
\* case is stated for every now whose bucket is at or before curr.Start().
C7_NeverRotatesBackward ==
    [][ /\ curr.start' >= curr.start
        /\ NewStart <= curr.start'
        /\ (\/ last'.now < curr.start
            \/ last.op # "none" /\ last'.now < last.now
            \/ NewStart <= curr.start)
           => /\ curr.start' = curr.start
              /\ prev.start' = prev.start
              /\ prev.count' = prev.count ]_vars

\* A call with a now before curr.Start() has been made, prev holding events.
C7_Witness ==
    /\ last.op \in {"AddN", "Count"}
    /\ last.now < curr.start
    /\ last.diffSize < 0
    /\ prev.count > 0

\* The step is the Count(now2) of C8: a Count(now1) is remembered, now1 <=
\* now2 lie in one bucket and only additions in that bucket came between.
C8_SecondCount ==
    /\ ret # NoRet
    /\ last'.op = "Count"
    /\ retNow <= last'.now
    /\ Truncate(retNow, size) = NewStart

\* C8 (as claimed): Count(now2) >= Count(now1), whatever prev holds.
C8_MonotonicWithinBucket ==
    [][ C8_SecondCount => ret' >= ret ]_vars

\* C8 (amended): Count(now2) >= Count(now1) when prev.Count() = 0; a
\* previous window that holds events weighs less as now grows.
C8_MonotonicWithinBucketEmptyPrev ==
    [][ C8_SecondCount /\ prev.count = 0 => ret' >= ret ]_vars

\* A second Count has been made after additions, prev being empty.
C8_Witness ==
    /\ last.op = "Count"
    /\ last.between >= 1
    /\ prev.count = 0
    /\ ret >= 2

\* C9: on a fresh counter, after AddN calls all in one bucket, a Count in
\* that bucket at or after the last of them returns the sum of what they
\* added.
C9_SumOfAdds ==
    [][ /\ fresh
        /\ last.op = "AddN"
        /\ last'.op = "Count"
        /\ NewStart = Truncate(last.now, size)
        /\ last'.now >= last.now
        => ret' = sum ]_vars

\* Such a Count has been made, in a bucket after the constructed one.
C9_Witness ==
    /\ last.op = "Count"
    /\ last.fresh
    /\ last.diffSize = 0
    /\ curr.start >= size
    /\ curr.start <= last.now
    /\ ret >= 2

\* C10: a Count(now) right after a Count(now) returns the same value and
\* leaves both windows as they were.
C10_CountIdempotent ==
    [][ /\ last.op = "Count"
        /\ last'.op = "Count"
        /\ last'.now = last.now
        => /\ ret' = ret
           /\ curr' = curr
           /\ prev' = prev ]_vars

\* The same Count has been made twice in a row, both windows holding events.
C10_Witness ==
    /\ last.op = "Count"
    /\ last.again
    /\ curr.count > 0
    /\ prev.count > 0

\* C11 (as claimed, SpecSyncFair): once the counter has been dropped, the
\* background loop comes to an end (it was never started, or it has
\* returned), whatever the syncInterval it was made with.
C11_LoopStopsOnceDiscarded ==
    (life = "discarded") ~> (loop \in {"none", "stopped"})

\* C12 (as claimed, SpecAnySize): a counter whose size is not positive never
\* has a call run on it, neither one that advances nor one that panics in
\* advance.
C12_NonPositiveSizeRejected ==
    size <= 0 => last.op = "none"

\* C13: as long as no AddN or Increment has been called, both windows hold
\* no event, and every Count(now) returns 0, whatever the now and however
\* many Count came before.
C13_EmptyAfterConstruction ==
    [][adds = 0 =>
          /\ curr.count = 0
          /\ prev.count = 0
          /\ (last'.op = "Count" => ret' = 0 /\ curr'.count = 0
                                            /\ prev'.count = 0)]_vars

\* A Count with a now in a later bucket has returned 0 before any AddN.
C13_Witness ==
    /\ adds = 0
    /\ last.op = "Count"
    /\ last.diffSize >= 1
    /\ last.now > Size
    /\ ret = 0

\* C18 (as claimed): what a Count(now) returns is at most prev.Count() +
\* curr.Count(), the weight being at most 1, whatever the now.
C18_CountAtMostBoth ==
    last.op = "Count" => ret <= prev.count + curr.count

\* C19: with only positive amounts added, neither window ever holds a
\* negative count and no Count(now) returns a negative value, also when
\* its now is earlier than that of earlier calls.
C19_NeverNegative ==
    /\ curr.count >= 0
    /\ prev.count >= 0
    /\ last.op = "Count" => ret >= 0

\* A Count with a now before curr.Start() has returned, prev holding events.
C19_Witness ==
    /\ last.op = "Count"
    /\ last.now < curr.start
    /\ prev.count > 0
    /\ ret > 0

(***************************************************************************)
(* The claims about the callers and the loop step by step (SpecSync).      *)
(***************************************************************************)
\* Thread t is between its mu.Lock() and its mu.Unlock().
InCritical(t) ==
    pc[t] \in {"advance", "load", "store", "sync", "estimate", "unlock"}

\* The loop is between its mu.Lock() and its mu.Unlock().
LoopInCritical == loop \in {"sync", "unlock"}

\* The AddN calls that have made their Sync call.
SyncedAddN ==
    conc.returned
    + Cardinality({t \in Threads : pc[t] = "unlock" /\ arg[t].op = "AddN"})

\* C14 (SpecSync): Size() is the size NewCounter was given, in every state
\* that calls of AddN and Count, rotations and ticks of the loop lead to.
C14_SizeIsConstructionSize ==
    CounterSize = Size

\* An AddN has returned, a rotation has been made and the loop has ticked.
C14_Witness ==
    /\ conc.returned >= 1
    /\ curr.start > 0
    /\ syncs.tick
    /\ CounterSize = Size

\* C15 (SpecSync): at most one of the callers and the loop is in its
\* critical section, where every step that reads or writes curr or prev
\* and every Sync is taken; whoever is in it holds mu, and whoever has
\* returned, or waits in the select, does not.
C15_MutualExclusion ==
    /\ Cardinality({t \in Threads : InCritical(t)})
       + (IF LoopInCritical THEN 1 ELSE 0) <= 1
    /\ \A t \in Threads : IF InCritical(t) THEN mu = t ELSE mu # t
    /\ IF LoopInCritical THEN mu = LoopThread ELSE mu # LoopThread

\* Both callers wait for the lock while the loop is in its tick.
C15_Witness ==
    /\ loop = "sync"
    /\ mu = LoopThread
    /\ \A t \in Threads : pc[t] = "lock"

\* C16 (SpecSync): an AddN(now, n) makes no Sync call before its AddCount
\* has written, and exactly one after it, still holding mu: that call is
\* handed curr as advance left it with n added, and up to the release of
\* the lock curr is that window and prev the one advance left.
C16_AddNOrder ==
    \A t \in Threads :
        arg[t].op = "AddN" =>
            LET added == [start |-> obs[t].start,
                          count |-> obs[t].base + arg[t].n]
            IN  /\ pc[t] \in {"lock", "advance", "load", "store", "sync"}
                   => obs[t].syncs = 0
                /\ pc[t] = "sync" => curr = added /\ prev = obs[t].prev
                /\ pc[t] = "unlock"
                   => /\ mu = t
                      /\ obs[t].syncs = 1
                      /\ obs[t].seen = added
                      /\ curr = added
                      /\ prev = obs[t].prev
                /\ pc[t] = "idle"
                   => obs[t].syncs = 1 /\ obs[t].seen = added

\* An AddN that rotated, prev inheriting events, has returned.
C16_Witness ==
    \E t \in Threads :
        /\ arg[t].op = "AddN"
        /\ pc[t] = "idle"
        /\ obs[t].start > 0
        /\ obs[t].prev.count > 0
        /\ obs[t].syncs = 1
        /\ obs[t].seen.count = 1

\* C17 (SpecSync): the callers' Sync calls are on curr, none is made by a
\* Count, and there are as many as AddN calls that have come to their
\* Sync; with syncInterval <= 0 there is no loop and no tick, so these are
\* all the Sync calls.
C17_SyncOnlyFromAddN ==
    /\ syncs.prev = 0
    /\ syncs.byCount = 0
    /\ syncs.curr = SyncedAddN
    /\ syncInterval <= 0 => loop = "none" /\ ~syncs.tick

\* With syncInterval <= 0, two AddN and a Count have returned.
C17_Witness ==
    /\ syncInterval <= 0
    /\ \A t \in Threads : pc[t] = "idle"
    /\ \E t \in Threads : arg[t].op = "Count" /\ res[t] # NoRet
    /\ conc.returned = 2
    /\ syncs.curr = 2

\* C20 (SpecSync): the Sync step of a tick leaves both windows as they
\* were, and a step that changes the start of curr or anything of prev is
\* the advance of a caller's AddN or Count.
C20_TickNeverRotates ==
    [][ /\ loop = "sync" /\ loop' = "unlock" => curr' = curr /\ prev' = prev
        /\ curr'.start # curr.start \/ prev' # prev
           => \E t \in Threads : pc[t] = "advance" /\ pc'[t] # "advance"
      ]_vars

\* A tick with a now in a later bucket has just been made, curr holding
\* events of its bucket.
C20_Witness ==
    /\ loop = "unlock"
    /\ syncs.late
    /\ curr.count > 0

====
